---- MODULE Spec2Model ----
(***************************************************************************)
(* The lender matching and allocation engine of backend/app/main.py:       *)
(* _risk_logic, _format_lender_id, _allocate_from_lenders and              *)
(* _generate_lender_combos.                                                *)
(*                                                                         *)
(* Money and rates are Python floats in the source.  Here they are         *)
(* fixed-point integers counted in mills (1/1000 of a currency unit), so   *)
(* that sub-cent capital and the rounding of round(x, 2) are both          *)
(* expressible: 1 cent = 10 mills, and a value rounded to 2 decimals is a  *)
(* multiple of 10.  Arithmetic on mills is exact; the 1e-16 noise of       *)
(* binary floating point is not modelled.  round() sends an exact half to  *)
(* the even neighbour; on a float that only prints as a half (0.005) the   *)
(* representation error decides, so the properties below are stated so as  *)
(* not to depend on the direction an exact half-cent is rounded in.        *)
(***************************************************************************)
EXTENDS Integers, Sequences, FiniteSets

VARIABLES
    amount,         \* the requested amount handed to the engine, in mills
    lenders,        \* the ordered lender list handed to the engine
    result,         \* what the last engine call returned
    borrow_amount,  \* the borrower's row of borrow_amounts: <<>> or <<mills>>
    max_amount,     \* the borrower's users.max_amount: <<>> (NULL) or <<mills>>
    risk,           \* the last two results of GET /borrow/risk, newest first
    users,          \* the other rows of users, in insertion order
    borrower,       \* the borrower's community_id and location_locked
    matches,        \* the rows of matches, in insertion order
    response        \* what the last POST /loans/request answered

\* The state the loan handlers add to the engine's and the risk scorer's.
loanVars == <<users, borrower, matches, response>>

vars == <<amount, lenders, result, borrow_amount, max_amount, risk,
          users, borrower, matches, response>>

(***************************************************************************)
(* Bounds of the model and constants of the program.                       *)
(***************************************************************************)
\* Longest lender list handed to the engine.
MaxLenders == 4

\* Longest lender list whose sublists are tried.
MaxSubLenders == 3

\* Most rows of users besides the borrower's.
MaxUsers == 2

\* Most rows of matches.
MaxMatches == 2

\* max_window = min(3, len(lenders))
MaxWindow == 3

\* No /loans/request has been answered yet.
NoResponse == [status |-> 0, detail |-> "", body |-> <<>>]

\* The borrower before any user exists in the loan scenario.
NoBorrower == [community_id |-> <<>>, location_locked |-> FALSE]

\* No operation of the engine has run yet.
NotRun == [op |-> "none", amount |-> 0, lenders |-> <<>>, parts |-> <<>>,
           outcome |-> "none", whole |-> <<>>, combos |-> <<>>, calls |-> <<>>]

(***************************************************************************)
(* Numeric helpers.                                                        *)
(***************************************************************************)
Min(a, b) == IF a <= b THEN a ELSE b

Max(a, b) == IF a >= b THEN a ELSE b

Abs(a) == IF a >= 0 THEN a ELSE -a

\* round(n / d) for d > 0: Python's round() to the nearest integer, an exact
\* half going to the even neighbour.
RoundHalfEven(n, d) ==
    LET q == n \div d
        r == n % d
    IN  IF 2 * r < d THEN q
        ELSE IF 2 * r > d THEN q + 1
        ELSE IF q % 2 = 0 THEN q ELSE q + 1

\* round(x, 2) on a value in mills: the nearest whole cent, again in mills.
Round2(x) == 10 * RoundHalfEven(x, 10)

(***************************************************************************)
(* Lender ids and their display form.                                      *)
(***************************************************************************)
Alphabet == <<"a", "b", "c", "d", "e", "f", "g", "h", "0", "1", "2", "3">>

\* _generate_id("user"): "user_" followed by 8 characters drawn from the
\* lowercase letters and the digits.  The i-th lender of a list gets the
\* i-th id of a fixed family of distinct ids (ids are a primary key).
GenerateId(i) ==
    <<"u", "s", "e", "r", "_">> \o
    <<"k", "q", Alphabet[((i - 1) % 12) + 1], "7",
      Alphabet[((i - 1) \div 12) + 1], "m", "x", "z">>

\* str.upper() on one character.
Upper(c) ==
    CASE c = "a" -> "A" [] c = "b" -> "B" [] c = "c" -> "C" [] c = "d" -> "D"
      [] c = "e" -> "E" [] c = "f" -> "F" [] c = "g" -> "G" [] c = "h" -> "H"
      [] c = "k" -> "K" [] c = "m" -> "M" [] c = "q" -> "Q" [] c = "r" -> "R"
      [] c = "s" -> "S" [] c = "u" -> "U" [] c = "x" -> "X" [] c = "z" -> "Z"
      [] OTHER -> c

\* Index of the first "_" of s, or 0 when there is none.
FirstUnderscore(s) ==
    IF \E i \in 1..Len(s) : s[i] = "_"
    THEN CHOOSE i \in 1..Len(s) :
            /\ s[i] = "_"
            /\ \A j \in 1..(i - 1) : s[j] # "_"
    ELSE 0

\* _format_lender_id: "Lender-" + user_id.split("_", 1)[-1][:4].upper()
FormatLenderId(user_id) ==
    LET u      == FirstUnderscore(user_id)
        suffix == SubSeq(user_id, u + 1, Len(user_id))
        head   == SubSeq(suffix, 1, Min(4, Len(suffix)))
    IN  <<"Lender-">> \o [i \in 1..Len(head) |-> Upper(head[i])]

(***************************************************************************)
(* _allocate_from_lenders                                                  *)
(***************************************************************************)
\* contribution = min(available, remaining)
Contribution(available, remaining) == Min(available, remaining)

\* Faulty variant of Skips: a lender whose contribution is not positive is not skipped.
NeverSkips(contribution) == FALSE

\* if contribution <= 0: continue
Skips(contribution) == contribution <= 0

\* Faulty variant of MakePart: user_id holds what precedes the first "_" of the
\* lender's id instead of the id.
MakePartPrefixId(lender, contribution) ==
    [lenderId |-> FormatLenderId(lender.id),
     amount   |-> Round2(contribution),
     rate     |-> Round2(lender.rate),
     user_id  |-> SubSeq(lender.id, 1, FirstUnderscore(lender.id) - 1)]

\* The dict appended for one contributing lender.
MakePart(lender, contribution) ==
    [lenderId |-> FormatLenderId(lender.id),
     amount   |-> Round2(contribution),
     rate     |-> Round2(lender.rate),
     user_id  |-> lender.id]

\* The for loop over the lenders, from the i-th on: stops once nothing
\* remains, skips a lender whose contribution is not positive.
RECURSIVE AllocLoop(_, _, _, _)
AllocLoop(ls, i, remaining, allocations) ==
    IF i > Len(ls) \/ remaining <= 0
    THEN [remaining |-> remaining, allocations |-> allocations]
    ELSE LET contribution == Contribution(ls[i].capital, remaining)
         IN  IF Skips(contribution)
             THEN AllocLoop(ls, i + 1, remaining, allocations)
             ELSE AllocLoop(ls, i + 1, remaining - contribution,
                            Append(allocations, MakePart(ls[i], contribution)))

\* sum(part["amount"] for part in allocations)
RECURSIVE SumAmounts(_)
SumAmounts(parts) ==
    IF parts = <<>> THEN 0
    ELSE parts[1].amount + SumAmounts(Tail(parts))

\* drift = round(amount - total_assigned, 2)
Drift(amt, allocations) == Round2(amt - SumAmounts(allocations))

\* Faulty variant of AdjustDrift: the drift is left where it is.
NoDriftAdjust(amt, allocations) == allocations

\* The rounding-drift step: the drift, when there is one, goes to the last part.
AdjustDrift(amt, allocations) ==
    LET drift == Drift(amt, allocations)
        n     == Len(allocations)
    IN  IF allocations # <<>> /\ drift # 0
        THEN [allocations EXCEPT ![n].amount = Round2(@ + drift)]
        ELSE allocations

\* Faulty variant of AllocateFromLenders: what was allocated is returned even when
\* some of the amount remains.
AllocatePartialFill(amt, ls) ==
    AdjustDrift(amt, AllocLoop(ls, 1, amt, <<>>).allocations)

\* _allocate_from_lenders(amount, lenders): <<>> is the INSUFFICIENT result.
AllocateFromLenders(amt, ls) ==
    LET run == AllocLoop(ls, 1, amt, <<>>)
    IN  IF run.remaining > 0 THEN <<>>
        ELSE AdjustDrift(amt, run.allocations)

\* How a call of _allocate_from_lenders ends, as its callers can tell: the
\* function has no raise, it returns a list, and "if not allocations" is the
\* callers' test for INSUFFICIENT.
AllocateOutcome(amt, ls) ==
    IF AllocateFromLenders(amt, ls) = <<>> THEN "INSUFFICIENT" ELSE "ALLOCATION"

(***************************************************************************)
(* _generate_lender_combos                                                 *)
(***************************************************************************)
\* tuple(part["user_id"] for part in parts)
SourceIds(parts) == [i \in 1..Len(parts) |-> parts[i].user_id]

\* {k: v for k, v in part.items() if k != "user_id"}
PublicParts(parts) ==
    [i \in 1..Len(parts) |->
        [lenderId |-> parts[i].lenderId,
         amount   |-> parts[i].amount,
         rate     |-> parts[i].rate]]

\* The combo dict built from one allocation.
MakeCombo(id, amt, parts) ==
    [id |-> id, total |-> Round2(amt), parts |-> PublicParts(parts),
     source_user_ids |-> SourceIds(parts)]

\* f"c{len(combos) + 1}": a combo is appended at most once per window, so
\* the loop names at most MaxWindow of them.
ComboId(combos) == <<"c1", "c2", "c3">>[Len(combos) + 1]

\* Faulty variant of AlreadySeen: no tuple counts as seen.
NeverSeen(source_ids, seen_sources) == FALSE

\* if source_ids in seen_sources: continue
AlreadySeen(source_ids, seen_sources) == source_ids \in seen_sources

\* Faulty variant of WindowLenders: the slice starts at the window instead
\* of ending at it (lenders[window - 1:]).
WindowSuffix(ls, window) == SubSeq(ls, window, Len(ls))

\* window_lenders = lenders[:window]
WindowLenders(ls, window) == SubSeq(ls, 1, window)

\* The for loop over the windows, from `window` on.
RECURSIVE WindowLoop(_, _, _, _, _)
WindowLoop(amt, ls, window, combos, seen_sources) ==
    IF window > Min(MaxWindow, Len(ls))
    THEN [combos |-> combos, seen_sources |-> seen_sources]
    ELSE LET parts == AllocateFromLenders(amt, WindowLenders(ls, window))
         IN  IF parts = <<>> \/ AlreadySeen(SourceIds(parts), seen_sources)
             THEN WindowLoop(amt, ls, window + 1, combos, seen_sources)
             ELSE WindowLoop(amt, ls, window + 1,
                             Append(combos, MakeCombo(ComboId(combos), amt, parts)),
                             seen_sources \cup {SourceIds(parts)})

\* Faulty variant of FallbackLenders: the fallback allocates from the largest window.
FallbackWindow(ls) == SubSeq(ls, 1, Min(MaxWindow, Len(ls)))

\* The lender list the fallback allocates from.
FallbackLenders(ls) == ls

\* _generate_lender_combos(amount, lenders)
GenerateLenderCombos(amt, ls) ==
    LET loop == WindowLoop(amt, ls, 1, <<>>, {})
    IN  IF loop.combos # <<>> THEN loop.combos
        ELSE LET parts == AllocateFromLenders(amt, FallbackLenders(ls))
             IN  IF parts # <<>> /\ ~AlreadySeen(SourceIds(parts), loop.seen_sources)
                 THEN Append(loop.combos, MakeCombo("c_all", amt, parts))
                 ELSE loop.combos

\* The lender lists _generate_lender_combos hands to the allocator, in call
\* order, each named by its length.
AllocatorCalls(amt, ls) ==
    LET windows == [w \in 1..Min(MaxWindow, Len(ls)) |-> w]
    IN  IF WindowLoop(amt, ls, 1, <<>>, {}).combos # <<>> THEN windows
        ELSE Append(windows, Len(FallbackLenders(ls)))

(***************************************************************************)
(* _risk_logic.  An optional float is <<>> (None) or <<mills>>; a ratio is *)
(* an exact fraction n / d with d > 0.                                     *)
(***************************************************************************)
\* amount = _get_borrow_amount(user_id) or 0.0
AmountOrZero(stored) == IF stored = <<>> THEN 0 ELSE stored[1]

\* ratio = amount / ceiling if ceiling else 1
Ratio(amt, ceil) ==
    IF ceil = <<>> \/ ceil = <<0>> THEN [n |-> 1, d |-> 1]
    ELSE IF ceil[1] > 0 THEN [n |-> amt, d |-> ceil[1]]
    ELSE [n |-> -amt, d |-> -ceil[1]]

\* Faulty variant of ClampRatio: the ratio is capped at 1.2 but not floored at 0.
ClampRatioNoFloor(r) ==
    IF 5 * r.n > 6 * r.d THEN [n |-> 6, d |-> 5] ELSE r

\* ratio = min(max(ratio, 0), 1.2)
ClampRatio(r) ==
    IF r.n < 0 THEN [n |-> 0, d |-> 1]
    ELSE IF 5 * r.n > 6 * r.d THEN [n |-> 6, d |-> 5]
    ELSE r

\* Faulty variant of BaseScore: the ratio term is added instead of subtracted.
BaseScoreRising(r) == [n |-> Max(5 * r.d, 95 * r.d + 60 * r.n), d |-> r.d]

\* base_score = max(5, 95 - ratio * 60), as a fraction over r.d
BaseScore(r) == [n |-> Max(5 * r.d, 95 * r.d - 60 * r.n), d |-> r.d]

\* score = round(base_score)
Score(amt, ceil) ==
    LET base == BaseScore(ClampRatio(Ratio(amt, ceil)))
    IN  RoundHalfEven(base.n, base.d)

\* The label of a score.
Label(score) ==
    IF score >= 70 THEN "low" ELSE IF score >= 45 THEN "med" ELSE "high"

\* The recommendation of a score.
Recommendation(score) ==
    IF score >= 70 THEN "yes" ELSE IF score >= 45 THEN "maybe" ELSE "no"

\* _risk_logic(user_id): the explanation is kept as the two values it embeds,
\* the amount formatted with .0f and the label.
RiskLogic(stored, ceil) ==
    LET amt   == AmountOrZero(stored)
        score == Score(amt, ceil)
    IN  [score          |-> score,
         label          |-> Label(score),
         explanation    |-> <<RoundHalfEven(amt, 1000), Label(score)>>,
         recommendation |-> Recommendation(score)]

(***************************************************************************)
(* Inputs.                                                                 *)
(***************************************************************************)
\* Requested amounts, in mills: non-positive, sub-cent, half-cent and whole-cent.
AmountSet == {-10, 0, 4, 5, 14, 24, 25, 36}

\* Lender capital, in mills: negative, zero, sub-cent, whole-cent.
CapitalSet == {-6, 0, 4, 6, 30}

\* min_rate of the i-th lender, in mills of a percent.  The roster comes out
\* of _fetch_lenders ordered by min_rate, so rates ascend along the list.
RateOf(i) == 3206 + 251 * i

\* The lender dict _fetch_lenders builds for one row.
Lender(i, capital) == [id |-> GenerateId(i), capital |-> capital, rate |-> RateOf(i)]

\* Every lender list of at most `longest` lenders.
LenderLists(longest) ==
    UNION { { [i \in 1..n |-> Lender(i, cs[i])] : cs \in [1..n -> CapitalSet] }
            : n \in 0..longest }

\* The requested amounts a borrower may store (save_borrow_amount rejects <= 0).
BorrowAmountSet == {4, 1000, 250000, 500000, 750000, 1000000, 1500000, 1800000, 2500000}

\* users.max_amount of the borrower: NULL, zero, negative or positive.
CeilingSet == {<<>>, <<0>>, <<-1500000>>, <<7>>, <<1000000>>, <<1500000>>}

(***************************************************************************)
(* The engine, called on one request.                                      *)
(***************************************************************************)
Init ==
    /\ amount \in AmountSet
    /\ lenders \in LenderLists(MaxLenders)
    /\ result = NotRun
    /\ borrow_amount = <<>>
    /\ max_amount = <<>>
    /\ risk = <<>>
    /\ users = <<>>
    /\ borrower = NoBorrower
    /\ matches = <<>>
    /\ response = NoResponse

\* The sublist of ls that keeps the positions in keep, in order.
RECURSIVE Sublist(_, _, _)
Sublist(ls, keep, i) ==
    IF i > Len(ls) THEN <<>>
    ELSE IF i \in keep THEN <<ls[i]>> \o Sublist(ls, keep, i + 1)
    ELSE Sublist(ls, keep, i + 1)

\* A call allocations = _allocate_from_lenders(amount, lenders).
Allocate ==
    /\ result.op = "none"
    /\ result' = [NotRun EXCEPT !.op = "allocate", !.amount = amount,
                                !.lenders = lenders,
                                !.parts = AllocateFromLenders(amount, lenders),
                                !.outcome = AllocateOutcome(amount, lenders)]
    /\ UNCHANGED <<amount, lenders, borrow_amount, max_amount, risk>>
    /\ UNCHANGED loanVars

\* A call combos = _generate_lender_combos(amount, lenders).
GenerateCombos ==
    /\ result.op = "none"
    /\ result' = [NotRun EXCEPT !.op = "combos", !.amount = amount,
                                !.lenders = lenders,
                                !.combos = GenerateLenderCombos(amount, lenders),
                                !.calls = AllocatorCalls(amount, lenders)]
    /\ UNCHANGED <<amount, lenders, borrow_amount, max_amount, risk>>
    /\ UNCHANGED loanVars

Next == Allocate \/ GenerateCombos

Spec == Init /\ [][Next]_vars

(***************************************************************************)
(* The allocator, called on a lender list and then on a sublist of it.     *)
(***************************************************************************)
InitSub ==
    /\ amount \in AmountSet
    /\ lenders \in LenderLists(MaxSubLenders)
    /\ result = NotRun
    /\ borrow_amount = <<>>
    /\ max_amount = <<>>
    /\ risk = <<>>
    /\ users = <<>>
    /\ borrower = NoBorrower
    /\ matches = <<>>
    /\ response = NoResponse

\* After a call on the whole list, a call on an order-preserving sublist of
\* it; `whole` keeps what the call on the whole list returned.
AllocateSublist ==
    /\ result.op = "allocate"
    /\ \E keep \in SUBSET (1..Len(lenders)) :
          LET sub == Sublist(lenders, keep, 1)
          IN  result' = [NotRun EXCEPT !.op = "sublist", !.amount = amount,
                                       !.lenders = sub,
                                       !.parts = AllocateFromLenders(amount, sub),
                                       !.outcome = AllocateOutcome(amount, sub),
                                       !.whole = result.parts]
    /\ UNCHANGED <<amount, lenders, borrow_amount, max_amount, risk>>
    /\ UNCHANGED loanVars

NextSub == Allocate \/ AllocateSublist

SpecSub == InitSub /\ [][NextSub]_vars

(***************************************************************************)
(* The risk scorer, called as the borrower changes the stored amount.      *)
(***************************************************************************)
InitRisk ==
    /\ amount = 0
    /\ lenders = <<>>
    /\ result = NotRun
    /\ borrow_amount = <<>>
    /\ max_amount \in CeilingSet
    /\ risk = <<>>
    /\ users = <<>>
    /\ borrower = NoBorrower
    /\ matches = <<>>
    /\ response = NoResponse

\* POST /borrow/amount: a non-positive amount is rejected with 422.
SaveBorrowAmount ==
    /\ \E a \in BorrowAmountSet :
          /\ a > 0
          /\ borrow_amount' = <<a>>
    /\ UNCHANGED <<amount, lenders, result, max_amount, risk>>
    /\ UNCHANGED loanVars

\* A call of _risk_logic; the model keeps the last two results, each with the
\* amount it was computed for.
CallRiskLogic ==
    /\ risk' = <<[amount |-> AmountOrZero(borrow_amount),
                  assessment |-> RiskLogic(borrow_amount, max_amount)]>>
               \o SubSeq(risk, 1, Min(1, Len(risk)))
    /\ UNCHANGED <<amount, lenders, result, borrow_amount, max_amount>>
    /\ UNCHANGED loanVars

NextRisk == SaveBorrowAmount \/ CallRiskLogic

SpecRisk == InitRisk /\ [][NextRisk]_vars

(***************************************************************************)
(* POST /loans/request, over a users table that grows and a borrower who   *)
(* stores amounts and verifies a location.  A geo is a pair of             *)
(* coordinates in 1/10000 of a degree; a community_id is the pair of       *)
(* bucketed coordinates its string is formatted from, and <<>> is None.    *)
(***************************************************************************)
\* Geo(lat=DEFAULT_COMMUNITY_LAT, lng=DEFAULT_COMMUNITY_LNG)
DefaultGeo == [lat |-> 403573, lng |-> -746672]

\* A place in another community, and one next to the default place.
FarGeo == [lat |-> 407128, lng |-> -740060]

NearGeo == [lat |-> 403391, lng |-> -746540]

\* _community_from_geo, with the default precision of 0.05 degrees:
\* round(x / precision) * precision for both coordinates.
CommunityFromGeo(geo) ==
    <<RoundHalfEven(geo.lat, 500) * 500, RoundHalfEven(geo.lng, 500) * 500>>

\* x or default, for an optional number: None and 0 are falsy.
OrDefault(x, default) == IF x = <<>> \/ x = <<0>> THEN default ELSE x[1]

\* The row create_user inserts for a payload; i numbers the generated id.
UserRow(i, payload) ==
    [id              |-> GenerateId(i),
     role            |-> payload.role,
     min_rate        |-> OrDefault(payload.min_rate, 3500),
     max_amount      |-> OrDefault(payload.max_amount, 1500000),
     community_id    |-> CommunityFromGeo(IF payload.geo = <<>> THEN DefaultGeo
                                          ELSE payload.geo[1]),
     location_locked |-> FALSE]

\* The id of the borrower who sends the requests.
BorrowerId == GenerateId(12)

\* _generate_id("match"): the id of the n-th match.
MatchId(n) == <<"m", "a", "t", "c", "h", "_">> \o SubSeq(GenerateId(n), 6, 13)

\* ORDER BY min_rate ASC, max_amount DESC: a sorts strictly before b.
Before(a, b) ==
    \/ a.min_rate < b.min_rate
    \/ a.min_rate = b.min_rate /\ a.max_amount > b.max_amount

\* sorted, with row put before the first row it sorts strictly before.
RECURSIVE InsertRow(_, _)
InsertRow(row, sorted) ==
    IF sorted = <<>> THEN <<row>>
    ELSE IF Before(row, sorted[1]) THEN <<row>> \o sorted
    ELSE <<sorted[1]>> \o InsertRow(row, Tail(sorted))

\* The rows in ORDER BY order; rows that compare equal keep insertion order.
RECURSIVE OrderBy(_)
OrderBy(rows) ==
    IF rows = <<>> THEN <<>>
    ELSE InsertRow(rows[Len(rows)], OrderBy(SubSeq(rows, 1, Len(rows) - 1)))

\* _fetch_lenders(community_id, require_lock) on the rows of users.
FetchLenders(rows, community_id, require_lock) ==
    LET Where(row) ==
            /\ row.role = "lender"
            /\ community_id # <<>> => row.community_id = community_id
            /\ require_lock => row.location_locked
        HasCapital(row) == row.max_amount # 0 /\ row.max_amount > 0
        kept == SelectSeq(OrderBy(SelectSeq(rows, Where)), HasCapital)
    IN  [i \in 1..Len(kept) |->
            [id |-> kept[i].id, capital |-> kept[i].max_amount,
             rate |-> kept[i].min_rate]]

\* The roster create_loan_request fetches for the borrower.
LoanLenders(rows, b) ==
    IF b.location_locked
    THEN FetchLenders(rows, b.community_id, TRUE)
    ELSE FetchLenders(rows,
                      IF b.community_id # <<>> THEN b.community_id
                      ELSE CommunityFromGeo(DefaultGeo),
                      FALSE)

\* The row create_loan_request inserts into matches.
MatchRow(n, amt, allocations, assessment) ==
    [id           |-> MatchId(n),
     user_id      |-> BorrowerId,
     total_amount |-> amt,
     lenders_json |-> PublicParts(allocations),
     risk_score   |-> assessment.score]

\* An HTTPException.
HttpError(status, detail) == [status |-> status, detail |-> detail, body |-> <<>>]

\* The answer of create_loan_request after it inserted row.
LoanAnswer(row, assessment) ==
    [status |-> 200, detail |-> "",
     body   |-> <<[match_id     |-> row.id,
                   total_amount |-> row.total_amount,
                   lenders      |-> row.lenders_json,
                   risk_score   |-> row.risk_score,
                   ai_advice    |-> IF assessment.recommendation = "yes"
                                    THEN "Great fit-community lenders ready."
                                    ELSE "Matched with cautious lenders."]>>]

\* Faulty variant of InsertMatch: the row is inserted before the allocation
\* is looked at.
InsertMatchAlways(rows, allocations, row) == Append(rows, row)

\* matches after the handler: the INSERT is reached only past the test
\* "if not allocations".
InsertMatch(rows, allocations, row) ==
    IF allocations = <<>> THEN rows ELSE Append(rows, row)

\* The requested amounts of the loan scenario, in mills.
LoanAmountSet == {14, 36}

\* The payloads of POST /users/create of the loan scenario.
UserPayloads ==
    { [role |-> "lender",   min_rate |-> <<>>,     max_amount |-> <<6>>,  geo |-> <<>>],
      [role |-> "lender",   min_rate |-> <<2995>>, max_amount |-> <<30>>, geo |-> <<NearGeo>>],
      [role |-> "lender",   min_rate |-> <<2995>>, max_amount |-> <<>>,   geo |-> <<FarGeo>>],
      [role |-> "lender",   min_rate |-> <<>>,     max_amount |-> <<-6>>, geo |-> <<>>],
      [role |-> "borrower", min_rate |-> <<>>,     max_amount |-> <<30>>, geo |-> <<>>] }

\* The borrower exists, created with the defaults or in another community.
InitLoan ==
    /\ amount = 0
    /\ lenders = <<>>
    /\ result = NotRun
    /\ borrow_amount = <<>>
    /\ max_amount = <<1500000>>
    /\ risk = <<>>
    /\ users = <<>>
    /\ borrower \in { [community_id |-> CommunityFromGeo(g), location_locked |-> FALSE]
                        : g \in {DefaultGeo, FarGeo} }
    /\ matches = <<>>
    /\ response = NoResponse

\* POST /users/create for another user.
CreateUser ==
    /\ Len(users) < MaxUsers
    /\ \E payload \in UserPayloads :
          users' = Append(users, UserRow(Len(users) + 1, payload))
    /\ UNCHANGED <<amount, lenders, result, borrow_amount, max_amount, risk,
                   borrower, matches, response>>

\* POST /verify-id with an accepted document, for the borrower or for
\* another user: the row moves to the default community and is locked.
VerifyId ==
    /\ \/ /\ borrower' = [community_id |-> CommunityFromGeo(DefaultGeo),
                          location_locked |-> TRUE]
          /\ UNCHANGED users
       \/ /\ \E i \in 1..Len(users) :
                users' = [users EXCEPT ![i].community_id = CommunityFromGeo(DefaultGeo),
                                       ![i].location_locked = TRUE]
          /\ UNCHANGED borrower
    /\ UNCHANGED <<amount, lenders, result, borrow_amount, max_amount, risk,
                   matches, response>>

\* POST /borrow/amount by the borrower.
SaveLoanAmount ==
    /\ \E a \in LoanAmountSet :
          /\ a > 0
          /\ borrow_amount' = <<a>>
    /\ UNCHANGED <<amount, lenders, result, max_amount, risk>>
    /\ UNCHANGED loanVars

\* POST /loans/request, for the borrower or for a user_id that does not exist.
CreateLoanRequest ==
    /\ Len(matches) < MaxMatches
    /\ \E known \in BOOLEAN :
          LET amt         == AmountOrZero(borrow_amount)
              assessment  == RiskLogic(borrow_amount, max_amount)
              roster      == LoanLenders(users, borrower)
              allocations == AllocateFromLenders(amt, roster)
              row         == MatchRow(Len(matches) + 1, amt, allocations, assessment)
          IN  IF ~known
              THEN /\ response' = HttpError(404, "User not found")
                   /\ UNCHANGED matches
              ELSE IF amt = 0
              THEN /\ response' = HttpError(404, "Borrow amount missing.")
                   /\ UNCHANGED matches
              ELSE IF roster = <<>>
              THEN /\ response' = HttpError(404, "No lenders available in your community yet.")
                   /\ UNCHANGED matches
              ELSE /\ matches' = InsertMatch(matches, allocations, row)
                   /\ response' =
                        IF allocations = <<>>
                        THEN HttpError(422, "Community pool does not have enough capital to fulfill this request.")
                        ELSE LoanAnswer(row, assessment)
    /\ UNCHANGED <<amount, lenders, result, borrow_amount, max_amount, risk,
                   users, borrower>>

NextLoan == CreateUser \/ VerifyId \/ SaveLoanAmount \/ CreateLoanRequest

SpecLoan == InitLoan /\ [][NextLoan]_vars

(***************************************************************************)
(* Properties of the allocator.                                            *)
(***************************************************************************)
\* The result holds a successful allocation for a positive amount.
Allocated ==
    /\ result.op = "allocate"
    /\ result.amount > 0
    /\ result.parts # <<>>

\* s is the amount rounded to 2 decimals: a whole number of cents at most
\* half a cent away from it (an exact half-cent has two such neighbours).
EqualTo2Decimals(s, amt) == s % 10 = 0 /\ Abs(s - amt) <= 5

\* Sum of the positive capital of a lender list.
RECURSIVE PositiveCapital(_)
PositiveCapital(ls) ==
    IF ls = <<>> THEN 0
    ELSE Max(ls[1].capital, 0) + PositiveCapital(Tail(ls))

C3_PositiveParts ==
    Allocated => \A i \in 1..Len(result.parts) : result.parts[i].amount > 0

\* The capital of the lender of ls whose id is user_id.
CapitalOf(ls, user_id) ==
    LET i == CHOOSE k \in 1..Len(ls) : ls[k].id = user_id
    IN  ls[i].capital

\* C13: no part of a successful allocation has an amount above the capital,
\* rounded to 2 decimals, of the lender it is attributed to.
C13_WithinCapital ==
    Allocated =>
        \A i \in 1..Len(result.parts) :
            result.parts[i].amount
                <= Round2(CapitalOf(result.lenders, result.parts[i].user_id))

\* C5: when the allocator returned INSUFFICIENT on a lender list, it returns
\* INSUFFICIENT on every order-preserving sublist of it.
C5_MonotoneInsufficiency ==
    (result.op = "sublist" /\ result.amount > 0 /\ result.whole = <<>>) =>
        result.parts = <<>>

\* C5 witness: INSUFFICIENT on the list and on a sublist of it that is not
\* empty and has dropped a lender holding capital.
C5_Witness ==
    /\ result.op = "sublist"
    /\ result.amount > 0
    /\ result.whole = <<>>
    /\ result.lenders # <<>>
    /\ PositiveCapital(result.lenders) < PositiveCapital(lenders)

\* C6: no lender contributes more than one part of an allocation.
C6_LenderOnce ==
    result.op = "allocate" =>
        \A i, j \in 1..Len(result.parts) :
            result.parts[i].user_id = result.parts[j].user_id => i = j

\* C6 witness: an allocation of several parts.
C6_Witness ==
    /\ result.op = "allocate"
    /\ Len(result.parts) >= 3

\* C9: a call of the allocator with an amount <= 0 is rejected: it ends
\* neither as an allocation nor as the ordinary INSUFFICIENT result.
C9_RejectsNonPositive ==
    (result.op = "allocate" /\ result.amount <= 0) =>
        result.outcome \notin {"ALLOCATION", "INSUFFICIENT"}

(***************************************************************************)
(* Properties of the combo generator.                                      *)
(***************************************************************************)
\* C4: no two combos returned by one call have the same set of contributing
\* lender ids.
C4_ComboDedup ==
    result.op = "combos" =>
        \A i, j \in 1..Len(result.combos) :
            LET ids(k) == { result.combos[k].source_user_ids[m] :
                               m \in 1..Len(result.combos[k].source_user_ids) }
            IN  ids(i) = ids(j) => i = j

\* C4 witness: a combo was returned after the allocator ran on several
\* windows, so a later window repeated the lenders of an earlier one.
C4_Witness ==
    /\ result.op = "combos"
    /\ Len(result.calls) >= 2
    /\ result.combos # <<>>
    /\ result.combos[1].id = "c1"

\* Every prefix window of size 1..min(3, number of lenders) is insufficient.
EveryWindowInsufficient(amt, ls) ==
    \A w \in 1..Min(3, Len(ls)) : AllocateFromLenders(amt, SubSeq(ls, 1, w)) = <<>>

\* C10: when every prefix window is insufficient the allocator is run once
\* more, over the entire list; the result is then the single combo "c_all"
\* holding that allocation, or empty when that allocation fails; and "c_all"
\* never comes with "c1", "c2" or "c3".
C10_Fallback ==
    result.op = "combos" =>
        LET ls   == result.lenders
            full == AllocateFromLenders(result.amount, ls)
            ids  == { result.combos[k].id : k \in 1..Len(result.combos) }
        IN  /\ EveryWindowInsufficient(result.amount, ls) =>
                  /\ result.calls =
                        [w \in 1..(Min(3, Len(ls)) + 1) |->
                            IF w <= Min(3, Len(ls)) THEN w ELSE Len(ls)]
                  /\ full # <<>> =>
                        /\ Len(result.combos) = 1
                        /\ result.combos[1].id = "c_all"
                        /\ result.combos[1].parts = PublicParts(full)
                  /\ full = <<>> => result.combos = <<>>
            /\ "c_all" \in ids => ids = {"c_all"}

\* C10 witness: the fallback returned "c_all" for a list longer than the
\* largest window.
C10_Witness ==
    /\ result.op = "combos"
    /\ Len(result.lenders) > 3
    /\ Len(result.combos) = 1
    /\ result.combos[1].id = "c_all"

\* The prefixes of ls, by length, that the allocator can fill amt from.
SufficientPrefixes(amt, ls) ==
    { w \in 1..Len(ls) : AllocateFromLenders(amt, SubSeq(ls, 1, w)) # <<>> }

\* The least element of a set of integers that is not empty.
Least(S) == CHOOSE w \in S : \A v \in S : w <= v

\* C12: for a positive amount at most one combo is returned: nothing, or the
\* single combo "c1" over the shortest sufficient prefix, or the single
\* combo "c_all".
C12_AtMostOneCombo ==
    (result.op = "combos" /\ result.amount > 0) =>
        LET ls   == result.lenders
            suff == SufficientPrefixes(result.amount, ls)
        IN  \/ result.combos = <<>>
            \/ /\ Len(result.combos) = 1
               /\ result.combos[1].id = "c1"
               /\ suff # {}
               /\ result.combos[1].parts =
                     PublicParts(AllocateFromLenders(result.amount,
                                                     SubSeq(ls, 1, Least(suff))))
            \/ /\ Len(result.combos) = 1
               /\ result.combos[1].id = "c_all"

\* C12 witness: "c1" came from a prefix of two lenders of a list of at least
\* three, so a larger window repeated its lenders and was discarded.
C12_Witness ==
    /\ result.op = "combos"
    /\ result.amount > 0
    /\ Len(result.lenders) >= 3
    /\ Len(result.combos) = 1
    /\ result.combos[1].id = "c1"
    /\ Len(result.combos[1].parts) = 2

(***************************************************************************)
(* Properties of the risk scorer.                                          *)
(***************************************************************************)
\* C7: every score _risk_logic computes is an integer in [5, 95].
C7_ScoreBounds ==
    \A i \in 1..Len(risk) : risk[i].assessment.score \in 5..95

\* C7 witness: a score computed for a positive amount against a ceiling of 0.
C7_Witness ==
    /\ risk # <<>>
    /\ risk[1].amount > 0
    /\ max_amount = <<0>>

\* C8: for a fixed ceiling > 0, the score of a larger amount is at most the
\* score of a smaller one.
C8_RiskMonotone ==
    (Len(risk) = 2 /\ max_amount # <<>> /\ max_amount[1] > 0) =>
        \A i, j \in 1..2 :
            risk[i].amount <= risk[j].amount =>
                risk[j].assessment.score <= risk[i].assessment.score

\* C8 witness: two scores for a ceiling > 0, the larger amount scoring
\* strictly lower.
C8_Witness ==
    /\ Len(risk) = 2
    /\ max_amount # <<>>
    /\ max_amount[1] > 0
    /\ risk[2].amount < risk[1].amount
    /\ risk[1].assessment.score < risk[2].assessment.score

(***************************************************************************)
(* Properties of POST /loans/request, checked under SpecLoan.              *)
(***************************************************************************)
\* C11: a call of /loans/request whose eligible roster is empty or holds less
\* positive capital than the stored amount answers 404 or 422 and leaves
\* matches as it was; matches changes only by one appended record, in a call
\* that answers 200, and the record holds a complete allocation of the
\* stored amount.
C11_MatchOnlyWhenComplete ==
    [][ LET roster == LoanLenders(users, borrower)
            amt    == AmountOrZero(borrow_amount)
        IN  /\ (CreateLoanRequest /\ (roster = <<>> \/ PositiveCapital(roster) < amt)) =>
                   /\ response'.status \in {404, 422}
                   /\ matches' = matches
            /\ matches' # matches =>
                   /\ Len(matches') = Len(matches) + 1
                   /\ SubSeq(matches', 1, Len(matches)) = matches
                   /\ response'.status = 200
                   /\ PositiveCapital(roster) >= amt
                   /\ LET row == matches'[Len(matches')]
                      IN  /\ row.lenders_json # <<>>
                          /\ row.total_amount = amt
                          /\ EqualTo2Decimals(SumAmounts(row.lenders_json), amt)
      ]_vars

\* C11 witness: a request was refused for lack of capital after an earlier
\* request of the same borrower was matched, and the one record is kept.
C11_Witness ==
    /\ response.status = 422
    /\ Len(matches) = 1
    /\ LoanLenders(users, borrower) # <<>>

====
